---- MODULE Spec2Model ----
(***************************************************************************)
(* Model of the deferred rendering command pipeline of lemon3d:            *)
(*   - Frame (src/video/backends/frame.rs): the command list, the scratch  *)
(*     arena, Frame::clear and Frame::dispatch replaying the commands      *)
(*     against a backend Visitor;                                          *)
(*   - Location (src/resource/utils/location.rs): the identity key of a    *)
(*     resource, its equality and the data it feeds to a hasher, and its   *)
(*     owned projection LocationAtom;                                      *)
(*   - Scene (modules/scene/src/scene.rs): the pipeline and material       *)
(*     registries and the operations that create, look up and delete       *)
(*     their records;                                                      *)
(*   - TextureSetup (src/video/assets/texture.rs): the validation of a     *)
(*     texture setup against its location.                                 *)
(* The Visitor is a recording test double: it logs every call it receives  *)
(* and answers each call with Ok or with an error chosen by the            *)
(* environment.                                                            *)
(***************************************************************************)
EXTENDS Integers, Sequences, FiniteSets, TLC

VARIABLES
    cmds,      \* Frame.cmds: the command list, in submission order
    bufs,      \* Frame.bufs: the scratch arena (DataBuffer), a sequence of bytes
    calls,     \* the calls the Visitor received during the last Frame operation
    ret,       \* what the last Frame operation returned
    pre,       \* the Frame (cmds, bufs) as it was when the last dispatch began
    prev,      \* after a dispatch: what the operation right before it returned
    clearRun,  \* number of Frame::clear calls made in a row (capped at 2)
    clearedFrom, \* sizes of cmds and bufs when the current run of clears began
    written,   \* the arena writes since the last clear: pointer and data
    la,        \* Location scenario: the left operand
    lb,        \* Location scenario: the right operand
    lres,      \* Location scenario: result of the last Location operation
    pipelines, \* Scene.pipelines: Registery<PipelineParams>
    materials, \* Scene.materials: Registery<MaterialParams>
    sret,      \* the last Scene operation: its name, arguments and result
    gone,      \* per registry, the handles whose record has been removed
    held,      \* per pipeline handle, the references callers hold: returns
               \* of create_pipeline not yet given back by delete_pipeline
    setup,     \* TextureSetup scenario: the setup (location and hint)
    valid      \* TextureSetup scenario: what validate returned

frameVars ==
    <<cmds, bufs, calls, ret, pre, prev, clearRun, clearedFrom, written>>
locVars == <<la, lb, lres>>
sceneVars == <<pipelines, materials, sret, gone, held>>
texVars == <<setup, valid>>
vars ==
    <<cmds, bufs, calls, ret, pre, prev, clearRun, clearedFrom, written,
      la, lb, lres,
      pipelines, materials, sret, gone, held, setup, valid>>

(***************************************************************************)
(* Bounds of the model.                                                    *)
(***************************************************************************)
\* Longest command list a producer encodes before dispatching or clearing.
MaxCmds == 2
\* Largest number of bytes the producer writes to the arena between clears.
MaxBuf == 2
\* Largest triangle count a single Visitor::draw reports.
MaxTris == 2
\* Longest path string given to a Location constructor.
MaxPathLen == 2
\* Largest token given to Location::token (a u8 in the source).
MaxToken == 1
\* Number of slots of a registry: the most records live at once.
MaxSlots == 2
\* Largest generation a slot reaches: a slot is reused MaxVersion - 1 times.
MaxVersion == 2
\* Largest reference count a record reaches.
MaxRc == 2

(***************************************************************************)
(* Command vocabulary (frame.rs, enum Command).  A command is modelled by  *)
(* its variant, the arena pointer it embeds (pointer-carrying variants     *)
(* only) and `sent`, the number of times it has been handed to a visitor   *)
(* verb so far.  Handles and parameter structs are forwarded opaquely by   *)
(* dispatch and are not modelled.                                          *)
(***************************************************************************)
PlainOps ==
    {"Bind", "UpdateScissor", "UpdateViewport",
     "CreateSurface", "DeleteSurface",
     "CreateShader", "DeleteShader",
     "CreateTexture", "DeleteTexture",
     "CreateRenderTexture", "DeleteRenderTexture",
     "CreateMesh", "DeleteMesh"}

PtrOps == {"Draw", "UpdateTexture", "UpdateVertexBuffer", "UpdateIndexBuffer"}

CommandOps == PlainOps \cup PtrOps

\* DataBufferPtr: an (offset, length) range of the arena.
NoPtr == [off |-> 0, len |-> 0]

Command(op, ptr) == [op |-> op, ptr |-> ptr, sent |-> 0]

\* The visitor verb each match arm of Frame::dispatch invokes.
VerbOf(op) ==
    CASE op = "Bind" -> "bind"
      [] op = "Draw" -> "draw"
      [] op = "UpdateScissor" -> "update_surface_scissor"
      [] op = "UpdateViewport" -> "update_surface_viewport"
      [] op = "CreateSurface" -> "create_surface"
      [] op = "DeleteSurface" -> "delete_surface"
      [] op = "CreateShader" -> "create_shader"
      [] op = "DeleteShader" -> "delete_shader"
      [] op = "CreateTexture" -> "create_texture"
      [] op = "UpdateTexture" -> "update_texture"
      [] op = "DeleteTexture" -> "delete_texture"
      [] op = "CreateRenderTexture" -> "create_render_texture"
      [] op = "DeleteRenderTexture" -> "delete_render_texture"
      [] op = "CreateMesh" -> "create_mesh"
      [] op = "UpdateVertexBuffer" -> "update_vertex_buffer"
      [] op = "UpdateIndexBuffer" -> "update_index_buffer"
      [] op = "DeleteMesh" -> "delete_mesh"

(***************************************************************************)
(* Scratch arena (DataBuffer).                                             *)
(***************************************************************************)
BufWriteAtStart(b, data) ==
    [bufs |-> b \o data, ptr |-> [off |-> 0, len |-> Len(data)]]

\* DataBuffer::write: appends the values, returns the pointer to them.
BufWrite(b, data) ==
    [bufs |-> b \o data, ptr |-> [off |-> Len(b), len |-> Len(data)]]

\* DataBuffer::as_slice: the view of the range a pointer names; reads only.
AsSlice(b, ptr) == SubSeq(b, ptr.off + 1, ptr.off + ptr.len)

\* DataBuffer::clear: resets the write cursor to zero.
BufClear(b) == <<>>

\* What the producer may write with one command.
Payloads == {<<1>>, <<2, 3>>}

(***************************************************************************)
(* The Visitor.  Its behaviour during one dispatch is an input:            *)
(*   fail : the position of the call that returns Err (0 = advance,        *)
(*          i = the verb of the i-th command, n+1 = flush), or NoFail;     *)
(*   tri  : the triangle count draw returns, per position of a Draw.       *)
(***************************************************************************)
NoFail == -1

FailPoints(list) == {NoFail} \cup (0 .. Len(list) + 1)

DrawIdx(list) == {i \in 1 .. Len(list) : list[i].op = "Draw"}

VisitorBehaviours(list) ==
    [fail : FailPoints(list), tri : [DrawIdx(list) -> 1 .. MaxTris]]

\* The record of one call the visitor received: the verb, the arena data it
\* was handed, how many times the command behind it has now been handed to
\* a verb (0 for advance and flush), its answer ("ok" or "err") and, for an
\* answered draw, the triangle count it returned.
Call(verb, data, sent, res, out) ==
    [verb |-> verb, data |-> data, sent |-> sent, res |-> res, out |-> out]

Answer(v, i) == IF v.fail = i THEN "err" ELSE "ok"

Triangles(v, i) ==
    IF i \in DOMAIN v.tri /\ v.fail # i THEN v.tri[i] ELSE 0

(***************************************************************************)
(* Frame::clear (frame.rs 55-59).                                          *)
(***************************************************************************)
FrameClearKeepingArena(f) == [cmds |-> <<>>, bufs |-> f.bufs]

FrameClear(f) == [cmds |-> <<>>, bufs |-> BufClear(f.bufs)]

(***************************************************************************)
(* Frame::dispatch (frame.rs 62-152).                                      *)
(***************************************************************************)
RECURSIVE Reversed(_)
Reversed(list) ==
    IF list = <<>> THEN <<>> ELSE Append(Reversed(Tail(list)), Head(list))

DrainOrderReversed(list) == Reversed(list)

\* `self.cmds.drain(..)` yields the commands front to back.
DrainOrder(list) == list

AccumulateEveryCommand(op, dc, tris, t) == <<dc + 1, tris + t>>

\* frame.rs 77-81: only the Draw arm touches the counters.
Accumulate(op, dc, tris, t) ==
    IF op = "Draw" THEN <<dc + 1, tris + t>> ELSE <<dc, tris>>

\* The pointer-carrying arms resolve their pointer against the frame's arena
\* (frame.rs 78, 112, 133, 138); the other arms pass no arena data.
Resolve(b, c) == IF c.op \in PtrOps THEN AsSlice(b, c.ptr) ELSE <<>>

\* The call one match arm makes for the command at position i.
Visit(b, c, v, i) ==
    Call(VerbOf(c.op), Resolve(b, c), c.sent + 1, Answer(v, i), Triangles(v, i))

AbortsNever(call) == FALSE

\* `?` on a visitor call's Err returns from dispatch at once (frame.rs 68,
\* 74-143, 148).
AbortsOn(call) == call.res = "err"

\* The for loop of frame.rs 71-146, from position st.i on.  st carries the
\* counters, the calls made so far and, once a verb failed, its position.
RECURSIVE DrainLoop(_, _, _, _)
DrainLoop(list, b, v, st) ==
    IF st.i > Len(list) THEN st
    ELSE LET c == list[st.i]
             call == Visit(b, c, v, st.i)
             acc == Accumulate(c.op, st.dc, st.tris, call.out)
         IN  IF AbortsOn(call)
             THEN [st EXCEPT !.calls = Append(@, call), !.failed = st.i]
             ELSE DrainLoop(list, b, v,
                    [st EXCEPT !.i = @ + 1, !.dc = acc[1], !.tris = acc[2],
                               !.calls = Append(@, call)])

\* The commands with `sent` counted up for the first n, those handed to a verb.
Delivered(list, n) ==
    [i \in 1 .. Len(list) |->
        IF i <= n THEN [list[i] EXCEPT !.sent = @ + 1] ELSE list[i]]

DrainKeepsUnconsumed(list, n) == SubSeq(list, n + 1, Len(list))

DrainKeepsAll(list, n) == list

\* What `cmds` holds once the Drain iterator is dropped, after n commands
\* were taken from it: a Drain over the full range removes the whole range
\* from the vector, whether or not it was consumed (frame.rs 71).
DrainDropped(list, n) == <<>>

\* frame.rs 68: advance.
Advance(v) == Call("advance", <<>>, 0, Answer(v, 0), 0)

\* frame.rs 148: flush.
Flush(v, n) == Call("flush", <<>>, 0, Answer(v, n + 1), 0)

EndBatchSkipped(log, fl) == log

\* The visitor's log once flush was called (frame.rs 148).
EndBatch(log, fl) == Append(log, fl)

\* Result<(u32, u32)>.
Err(at) == [kind |-> "err", at |-> at, dc |-> 0, tris |-> 0]
Ok(dc, tris) == [kind |-> "ok", at |-> NoFail, dc |-> dc, tris |-> tris]
NoRet == [kind |-> "none", at |-> NoFail, dc |-> 0, tris |-> 0]

FinishClearingArena(f, log, dc, tris) ==
    [cmds |-> <<>>, bufs |-> <<>>, calls |-> log, ret |-> Ok(dc, tris)]

\* frame.rs 149-150: the successful end of dispatch clears the command list
\* and returns the counters; the arena is not touched.
Finish(f, log, dc, tris) ==
    [cmds |-> <<>>, bufs |-> f.bufs, calls |-> log, ret |-> Ok(dc, tris)]

\* The whole of Frame::dispatch: the frame it leaves, the calls it made and
\* the value it returns.
FrameDispatch(f, v) ==
    LET adv == Advance(v)
    IN  IF AbortsOn(adv)
        THEN \* frame.rs 68: returns before the Drain is created
             [cmds |-> f.cmds, bufs |-> f.bufs, calls |-> <<adv>>, ret |-> Err(0)]
        ELSE LET list == DrainOrder(f.cmds)
                 n == Len(list)
                 st == DrainLoop(list, f.bufs, v,
                         [i |-> 1, dc |-> 0, tris |-> 0,
                          calls |-> <<adv>>, failed |-> NoFail])
             IN  IF st.failed # NoFail
                 THEN \* a verb failed: the Drain is dropped on the way out
                      [cmds |-> DrainDropped(Delivered(list, st.failed), st.failed),
                       bufs |-> f.bufs,
                       calls |-> st.calls,
                       ret |-> Err(st.failed)]
                 ELSE LET fl == Flush(v, n)
                          left == DrainDropped(Delivered(list, n), n)
                      IN  IF AbortsOn(fl)
                          THEN [cmds |-> left, bufs |-> f.bufs,
                                calls |-> EndBatch(st.calls, fl),
                                ret |-> Err(n + 1)]
                          ELSE Finish([cmds |-> left, bufs |-> f.bufs],
                                      EndBatch(st.calls, fl), st.dc, st.tris)

(***************************************************************************)
(* The Frame as a state machine.                                           *)
(***************************************************************************)
Frame == [cmds |-> cmds, bufs |-> bufs]

\* `pre` outside a dispatch.
NoFrame == [cmds |-> <<>>, bufs |-> <<>>]

Sizes(f) == [cmds |-> Len(f.cmds), bufs |-> Len(f.bufs)]

NoSizes == [cmds |-> 0, bufs |-> 0]

Outcome(r) == [kind |-> r.kind, at |-> r.at]

InitFrame ==
    /\ cmds = <<>>
    /\ bufs = <<>>
    /\ calls = <<>>
    /\ ret = NoRet
    /\ pre = NoFrame
    /\ prev = Outcome(NoRet)
    /\ clearRun = 0
    /\ clearedFrom = NoSizes
    /\ written = <<>>

\* A producer pushes a command without payload.
EncodePlain ==
    \E op \in PlainOps :
        /\ Len(cmds) < MaxCmds
        /\ cmds' = Append(cmds, Command(op, NoPtr))
        /\ bufs' = bufs
        /\ pre' = NoFrame
        /\ calls' = <<>>
        /\ ret' = NoRet
        /\ prev' = Outcome(NoRet)
        /\ clearRun' = 0
        /\ clearedFrom' = NoSizes
        /\ UNCHANGED written
        /\ UNCHANGED <<locVars, sceneVars, texVars>>

\* A producer writes a payload to the arena and pushes the command that
\* embeds the pointer to it.
EncodeWithData ==
    \E op \in PtrOps, data \in Payloads :
        /\ Len(cmds) < MaxCmds
        /\ Len(bufs) + Len(data) <= MaxBuf
        /\ LET w == BufWrite(bufs, data)
           IN  /\ bufs' = w.bufs
               /\ cmds' = Append(cmds, Command(op, w.ptr))
               /\ written' = Append(written, [ptr |-> w.ptr, data |-> data])
        /\ pre' = NoFrame
        /\ calls' = <<>>
        /\ ret' = NoRet
        /\ prev' = Outcome(NoRet)
        /\ clearRun' = 0
        /\ clearedFrom' = NoSizes
        /\ UNCHANGED <<locVars, sceneVars, texVars>>

Dispatch ==
    \E v \in VisitorBehaviours(cmds) :
        LET r == FrameDispatch(Frame, v)
        IN  /\ cmds' = r.cmds
            /\ bufs' = r.bufs
            /\ calls' = r.calls
            /\ ret' = r.ret
            /\ pre' = Frame
            /\ prev' = Outcome(ret)
            /\ clearRun' = 0
            /\ clearedFrom' = NoSizes
            /\ UNCHANGED written
            /\ UNCHANGED <<locVars, sceneVars, texVars>>

Clear ==
    LET r == FrameClear(Frame)
    IN  /\ cmds' = r.cmds
        /\ bufs' = r.bufs
        /\ calls' = <<>>
        /\ ret' = NoRet
        /\ pre' = NoFrame
        /\ prev' = Outcome(NoRet)
        /\ clearRun' = IF clearRun < 2 THEN clearRun + 1 ELSE 2
        /\ clearedFrom' = IF clearRun = 0 THEN Sizes(Frame) ELSE clearedFrom
        /\ written' = <<>>
        /\ UNCHANGED <<locVars, sceneVars, texVars>>

(***************************************************************************)
(* Paths.  A path is a string over PathChars; Location keeps it as a       *)
(* &Path, whose == and Hash work on the path's components: the text        *)
(* between separators, repeated and trailing separators ignored, a leading *)
(* separator kept as the root component.                                   *)
(***************************************************************************)
PathChars == {"a", "b", "/"}

Strings(n) == UNION {[1 .. k -> PathChars] : k \in 0 .. n}

Paths == Strings(MaxPathLen)

\* The components of p[i..], cur being the component under construction.
RECURSIVE Split(_, _, _)
Split(p, i, cur) ==
    IF i > Len(p) THEN (IF cur = <<>> THEN <<>> ELSE <<cur>>)
    ELSE IF p[i] = "/"
         THEN (IF cur = <<>> THEN <<>> ELSE <<cur>>) \o Split(p, i + 1, <<>>)
         ELSE Split(p, i + 1, Append(cur, p[i]))

\* Path::components.
Components(p) ==
    [root |-> (Len(p) > 0 /\ p[1] = "/"), parts |-> Split(p, 1, <<>>)]

\* impl PartialEq for Path.
PathEq(p, q) == Components(p) = Components(q)

\* impl Hash for Path: what it feeds to the hasher.
PathHashFeed(p) == Components(p)

(***************************************************************************)
(* Signature (location.rs 69-85).                                          *)
(***************************************************************************)
Tokens == 0 .. MaxToken

SigUnique == [tag |-> "Unique", token |-> 0]
SigShared == [tag |-> "Shared", token |-> 0]
SigTokenShared(t) == [tag |-> "TokenShared", token |-> t]

\* Signature::is_shared (location.rs 76-85).
SigIsShared(c) == c.tag # "Unique"

SigEqByDiscriminant(c, d) == c.tag = d.tag

\* derive(PartialEq) on Signature (location.rs 69).
SigEq(c, d) == c.tag = d.tag /\ (c.tag = "TokenShared" => c.token = d.token)

\* derive(Hash) on Signature (location.rs 69): the discriminant, then the
\* token of TokenShared.
SigHashFeed(c) ==
    CASE c.tag = "Unique" -> <<0>>
      [] c.tag = "Shared" -> <<1>>
      [] c.tag = "TokenShared" -> <<2, c.token>>

(***************************************************************************)
(* Location (location.rs 10-120).                                          *)
(***************************************************************************)
\* Location::unique (location.rs 17-25).
LocationUnique(p) == [code |-> SigUnique, location |-> p]

\* Location::shared (location.rs 27-35).
LocationShared(p) == [code |-> SigShared, location |-> p]

\* Location::token (location.rs 37-45).
LocationToken(t, p) == [code |-> SigTokenShared(t), location |-> p]

\* Location::is_shared (location.rs 47-51).
IsShared(l) == SigIsShared(l.code)

LocationEqDerived(a, b) ==
    SigEq(a.code, b.code) /\ PathEq(a.location, b.location)

LocationEqIgnoringPath(a, b) ==
    IF SigIsShared(a.code) THEN SigEq(a.code, b.code) ELSE FALSE

LocationEqIgnoringCode(a, b) ==
    IF SigIsShared(a.code) THEN PathEq(a.location, b.location) ELSE FALSE

\* impl PartialEq for Location (location.rs 87-95).
LocationEq(a, b) ==
    IF SigIsShared(a.code)
    THEN SigEq(a.code, b.code) /\ PathEq(a.location, b.location)
    ELSE FALSE

EqOutcomeAborting(a, b) ==
    IF SigIsShared(a.code)
    THEN [aborted |-> FALSE, value |-> LocationEq(a, b)]
    ELSE [aborted |-> TRUE, value |-> FALSE]

\* How a == b ends (location.rs 87-95): both branches return a bool, none
\* panics.
EqOutcome(a, b) == [aborted |-> FALSE, value |-> LocationEq(a, b)]

Panic == "panic"

\* impl Hash for Location (location.rs 99-111): the data fed to the hasher,
\* or the panic.
LocationHashFeed(a) ==
    IF SigIsShared(a.code)
    THEN <<SigHashFeed(a.code), PathHashFeed(a.location)>>
    ELSE Panic

\* impl Default for Location (location.rs 113-120).
LocationDefault == [code |-> SigUnique, location |-> <<>>]

(***************************************************************************)
(* LocationAtom (location.rs 59-66, 122-176).                              *)
(***************************************************************************)
\* HashValue<Path> of a path: the 64-bit digest of what the path feeds to a
\* hasher.  Distinct feeds are taken to give distinct digests.
HashValueOf(p) == PathHashFeed(p)

\* Location::hash and From<Location> for LocationAtom (location.rs 59-66,
\* 129-136).
ToAtom(l) == [code |-> l.code, location |-> HashValueOf(l.location)]

\* LocationAtom::is_shared (location.rs 138-144).
AtomIsShared(a) == SigIsShared(a.code)

AtomEqIgnoringLocation(a, b) ==
    IF SigIsShared(a.code) THEN SigEq(a.code, b.code) ELSE FALSE

\* impl PartialEq for LocationAtom (location.rs 146-154).
AtomEq(a, b) ==
    IF SigIsShared(a.code)
    THEN SigEq(a.code, b.code) /\ a.location = b.location
    ELSE FALSE

\* How a == b ends for atoms (location.rs 146-154): no branch panics.
AtomEqOutcome(a, b) == [aborted |-> FALSE, value |-> AtomEq(a, b)]

AtomHashFeedUnguarded(a) == <<SigHashFeed(a.code), a.location>>

\* impl Hash for LocationAtom (location.rs 158-170): the data fed to the
\* hasher, or the panic.
AtomHashFeed(a) ==
    IF SigIsShared(a.code)
    THEN <<SigHashFeed(a.code), a.location>>
    ELSE Panic

\* impl Default for LocationAtom (location.rs 172-176).
AtomDefault == ToAtom(LocationDefault)

(***************************************************************************)
(* std HashSet<LocationAtom> as test::shared_container uses it: a key is   *)
(* found when a stored key has the same hash and compares equal.           *)
(***************************************************************************)
SetFinds(set, x) ==
    \E y \in set : AtomHashFeed(y) = AtomHashFeed(x) /\ AtomEq(x, y)

\* HashSet::insert: the set afterwards and the returned bool, or the panic
\* of hashing the key.
SetInsert(set, x) ==
    IF AtomHashFeed(x) = Panic THEN [set |-> set, out |-> Panic]
    ELSE IF SetFinds(set, x) THEN [set |-> set, out |-> "false"]
    ELSE [set |-> set \cup {x}, out |-> "true"]

\* HashSet::contains.
SetContains(set, x) ==
    IF AtomHashFeed(x) = Panic THEN Panic
    ELSE IF SetFinds(set, x) THEN "true" ELSE "false"

\* The calls of test::shared_container (location.rs 202-217) for the atoms
\* l1 and l2, with what each call returned; the run stops at a panic.
SharedContainer(l1, l2) ==
    LET i1 == SetInsert({}, l1)
        c1 == SetContains(i1.set, l1)
        c2 == SetContains(i1.set, l2)
        i2 == SetInsert(i1.set, l2)
        c3 == SetContains(i2.set, l1)
        c4 == SetContains(i2.set, l2)
        i3 == SetInsert(i2.set, l1)
    IN  IF i1.out = Panic THEN <<Panic>>
        ELSE IF c2 = Panic THEN <<i1.out, c1, Panic>>
        ELSE <<i1.out, c1, c2, i2.out, c3, c4, i3.out>>

\* Every Location the three constructors build from the paths and tokens.
Locations ==
    {LocationUnique(p) : p \in Paths}
        \cup {LocationShared(p) : p \in Paths}
        \cup {LocationToken(t, p) : t \in Tokens, p \in Paths}

(***************************************************************************)
(* Registery<T> (crayon::resource::utils): slots addressed by generation-  *)
(* checked handles, a reference count per record, and a lookup map keyed   *)
(* by the LocationAtom of shared locations.                                *)
(***************************************************************************)
None == [some |-> FALSE]
Some(x) == [some |-> TRUE, value |-> x]

\* A handle: the slot index and the generation of the slot it was issued
\* for.
Handle(i, v) == [index |-> i, version |-> v]

Handles == {Handle(i, v) : i \in 1 .. MaxSlots, v \in 1 .. MaxVersion}

SameVersion(v) == v

\* The generation a slot takes when its record is removed.
NextVersion(v) == v + 1

EmptySlot(v) ==
    [version |-> v, live |-> FALSE, rc |-> 0, value |-> None,
     location |-> None]

\* Registery::new.
RegistryNew ==
    [slots |-> [i \in 1 .. MaxSlots |-> EmptySlot(1)], lookups |-> {}]

\* The handle names the record that its slot holds now.
IsAlive(reg, h) ==
    /\ reg.slots[h.index].live
    /\ reg.slots[h.index].version = h.version

LiveHandles(reg) == {h \in Handles : IsAlive(reg, h)}

\* Registery::get / get_mut.
RegGet(reg, h) ==
    IF IsAlive(reg, h) THEN reg.slots[h.index].value ELSE None

\* The reference count of a live record.
Rc(reg, h) == reg.slots[h.index].rc

\* Registery::lookup: None for a Unique location, otherwise the handle
\* stored under an equal atom.
RegLookup(reg, loc) ==
    IF IsShared(loc)
    THEN LET hits == {e \in reg.lookups :
                        /\ AtomHashFeed(e.key) = AtomHashFeed(ToAtom(loc))
                        /\ AtomEq(ToAtom(loc), e.key)}
         IN  IF hits = {} THEN None
             ELSE Some((CHOOSE e \in hits : TRUE).handle)
    ELSE None

\* The slot the next allocation takes: the free slot of lowest index.
FreeSlots(reg) == {i \in 1 .. MaxSlots : ~reg.slots[i].live}

CanAllocate(reg) ==
    /\ FreeSlots(reg) # {}
    /\ LET i == CHOOSE j \in FreeSlots(reg) : \A k \in FreeSlots(reg) : j <= k
       IN  reg.slots[i].version <= MaxVersion

\* Registery::inc_rc.
RegIncRc(reg, h) ==
    IF IsAlive(reg, h)
    THEN [reg EXCEPT !.slots[h.index].rc = @ + 1]
    ELSE reg

\* Registery::create: the registry afterwards and the handle returned.
RegCreate(reg, loc, value) ==
    LET hit == RegLookup(reg, loc)
        i == CHOOSE j \in FreeSlots(reg) : \A k \in FreeSlots(reg) : j <= k
        h == Handle(i, reg.slots[i].version)
        slot == [version |-> h.version, live |-> TRUE, rc |-> 1,
                 value |-> Some(value),
                 location |-> IF IsShared(loc) THEN Some(ToAtom(loc))
                              ELSE None]
    IN  IF hit.some
        THEN [reg |-> RegIncRc(reg, hit.value), handle |-> hit.value]
        ELSE [reg |-> [slots |-> [reg.slots EXCEPT ![i] = slot],
                       lookups |-> IF IsShared(loc)
                                   THEN reg.lookups
                                           \cup {[key |-> ToAtom(loc),
                                                  handle |-> h]}
                                   ELSE reg.lookups],
              handle |-> h]

RegDecRcBySlot(reg, h) ==
    IF reg.slots[h.index].rc > 1
    THEN [reg EXCEPT !.slots[h.index].rc = @ - 1]
    ELSE [slots |-> [reg.slots EXCEPT
                        ![h.index] =
                            EmptySlot(NextVersion(reg.slots[h.index].version))],
          lookups |-> {e \in reg.lookups : e.handle.index # h.index}]

RegDecRcKeepingRecord(reg, h) ==
    IF IsAlive(reg, h)
    THEN [reg EXCEPT !.slots[h.index].rc = @ - 1]
    ELSE reg

\* Registery::dec_rc: nothing for a handle that is not live; otherwise the
\* count drops, and at zero the record leaves the slot and the lookup map
\* and the slot moves to its next generation.
RegDecRc(reg, h) ==
    IF ~IsAlive(reg, h) THEN reg
    ELSE IF Rc(reg, h) > 1
    THEN [reg EXCEPT !.slots[h.index].rc = @ - 1]
    ELSE [slots |-> [reg.slots EXCEPT
                        ![h.index] = EmptySlot(NextVersion(h.version))],
          lookups |-> {e \in reg.lookups : e.handle # h}]

(***************************************************************************)
(* Scene (scene.rs 46-212): the two registries and their operations.       *)
(***************************************************************************)
\* What a PipelineSetup carries besides its location.
PipelineValues == {"v1", "v2"}

\* The locations PipelineSetup::location returns.
SceneLocations == {LocationUnique(<<"a">>), LocationShared(<<"a">>)}

SceneOk(h) == [kind |-> "ok", handle |-> h]
SceneDone == [kind |-> "ok"]
SceneErr(e) == [kind |-> "err", error |-> e]
SceneErrHandle(e, h) == [kind |-> "err", error |-> e, handle |-> h]

\* The handles a caller can hold: those a create returned, whether their
\* record is still live or has been removed.
Issued(reg, removed) == LiveHandles(reg) \cup removed

\* Scene::new (scene.rs 58-80): empty registries.
InitScene ==
    /\ pipelines = RegistryNew
    /\ materials = RegistryNew
    /\ sret = [op |-> "none"]
    /\ gone = [pipelines |-> {}, materials |-> {}]
    /\ held = [h \in Handles |-> 0]

\* Scene::lookup_pipeline (scene.rs 154-157).
LookupPipeline ==
    \E loc \in SceneLocations :
        /\ sret' = [op |-> "lookup_pipeline", loc |-> loc,
                    out |-> RegLookup(pipelines, loc)]
        /\ UNCHANGED <<pipelines, materials, gone, held>>
        /\ UNCHANGED <<frameVars, locVars, texVars>>

PipelineReuseWithoutIncRc(reg, h) == reg

PipelineReuseCountedTwice(reg, h) == RegIncRc(RegIncRc(reg, h), h)

\* Scene::create_pipeline, the location is registered already
\* (scene.rs 161-164).
PipelineReuse(reg, h) == RegIncRc(reg, h)

\* Scene::create_pipeline (scene.rs 160-173).  shader is what
\* video.create_shader answers.
CreatePipeline ==
    \E loc \in SceneLocations, value \in PipelineValues :
        LET hit == RegLookup(pipelines, loc)
            made == RegCreate(pipelines, loc, value)
            call == [op |-> "create_pipeline", loc |-> loc, value |-> value,
                     out |-> None]
        IN  IF hit.some
            THEN /\ Rc(pipelines, hit.value) < MaxRc
                 /\ pipelines' = PipelineReuse(pipelines, hit.value)
                 /\ sret' = [call EXCEPT !.out = SceneOk(hit.value)]
                 /\ held' = [held EXCEPT ![hit.value] = @ + 1]
                 /\ UNCHANGED <<materials, gone>>
                 /\ UNCHANGED <<frameVars, locVars, texVars>>
            ELSE \/ /\ sret' = [call EXCEPT !.out = SceneErr("Video")]
                    /\ UNCHANGED <<pipelines, materials, gone, held>>
                    /\ UNCHANGED <<frameVars, locVars, texVars>>
                 \/ /\ CanAllocate(pipelines)
                    /\ pipelines' = made.reg
                    /\ sret' = [call EXCEPT !.out = SceneOk(made.handle)]
                    /\ held' = [held EXCEPT ![made.handle] = @ + 1]
                    /\ UNCHANGED <<materials, gone>>
                    /\ UNCHANGED <<frameVars, locVars, texVars>>

PipelineReleaseForgotten(reg, h) == reg

\* Scene::delete_pipeline (scene.rs 175-178), on the registry.
PipelineRelease(reg, h) == RegDecRc(reg, h)

\* Scene::delete_pipeline (scene.rs 175-178).
DeletePipeline ==
    \E h \in Issued(pipelines, gone.pipelines) :
        /\ pipelines' = PipelineRelease(pipelines, h)
        /\ gone' = [gone EXCEPT !.pipelines =
                        IF IsAlive(pipelines, h) /\ ~IsAlive(pipelines', h)
                        THEN @ \cup {h} ELSE @]
        /\ sret' = [op |-> "delete_pipeline", handle |-> h]
        /\ held' = [held EXCEPT ![h] = IF @ > 0 THEN @ - 1 ELSE 0]
        /\ UNCHANGED materials
        /\ UNCHANGED <<frameVars, locVars, texVars>>

MaterialLocationShared == LocationShared(<<>>)

\* The location Scene::create_material registers a material under
\* (scene.rs 183).
MaterialLocation == LocationUnique(<<>>)

PipelineCheckSkipped(reg, ph) == TRUE

\* Scene::create_material: `if let Some(po) = self.pipelines.get(..)`
\* (scene.rs 182).
PipelineResolves(reg, ph) == RegGet(reg, ph).some

MaterialRetainsPipeline(reg, ph) == RegIncRc(reg, ph)

\* What Scene::create_material does to the pipeline registry
\* (scene.rs 182-185): it reads the record through get and clones its
\* shader parameters.
MaterialReadsPipeline(reg, ph) == reg

\* MaterialParams::new (scene.rs 184-185): the pipeline of the material and
\* the uniform variables bound so far.
MaterialOf(ph) == [pipeline |-> ph, bound |-> {}]

\* Scene::create_material (scene.rs 181-190).
CreateMaterial ==
    \E ph \in Issued(pipelines, gone.pipelines) :
        LET made == RegCreate(materials, MaterialLocation, MaterialOf(ph))
            call == [op |-> "create_material", pipeline |-> ph,
                     out |-> None]
        IN  IF PipelineResolves(pipelines, ph)
            THEN /\ CanAllocate(materials)
                 /\ materials' = made.reg
                 /\ pipelines' = MaterialReadsPipeline(pipelines, ph)
                 /\ sret' = [call EXCEPT !.out = SceneOk(made.handle)]
                 /\ UNCHANGED <<gone, held>>
                 /\ UNCHANGED <<frameVars, locVars, texVars>>
            ELSE /\ sret' = [call EXCEPT !.out =
                                SceneErrHandle("PipelineHandleInvalid", ph)]
                 /\ UNCHANGED <<pipelines, materials, gone, held>>
                 /\ UNCHANGED <<frameVars, locVars, texVars>>

\* The uniform names a caller binds.
Uniforms == {"u"}

\* MaterialParams::bind: the material with the uniform bound.
Bind(m, f) == [m EXCEPT !.bound = @ \cup {f}]

\* Scene::update_material (scene.rs 192-204).  bind is what
\* MaterialParams::bind answers; a failed bind leaves the material as it
\* was.
UpdateMaterial ==
    \E h \in Issued(materials, gone.materials), f \in Uniforms,
       bind \in {"ok", "err"} :
        LET m == RegGet(materials, h)
            call == [op |-> "update_material", handle |-> h, out |-> None]
        IN  IF m.some
            THEN IF bind = "ok"
                 THEN /\ materials' =
                            [materials EXCEPT !.slots[h.index].value =
                                Some(Bind(m.value, f))]
                      /\ sret' = [call EXCEPT !.out = SceneDone]
                      /\ UNCHANGED <<pipelines, gone, held>>
                      /\ UNCHANGED <<frameVars, locVars, texVars>>
                 ELSE /\ sret' = [call EXCEPT !.out = SceneErr("Bind")]
                      /\ UNCHANGED <<pipelines, materials, gone, held>>
                      /\ UNCHANGED <<frameVars, locVars, texVars>>
            ELSE /\ sret' = [call EXCEPT !.out =
                                SceneErrHandle("MaterialHandleInvalid", h)]
                 /\ UNCHANGED <<pipelines, materials, gone, held>>
                 /\ UNCHANGED <<frameVars, locVars, texVars>>

\* Scene::delete_material (scene.rs 206-212).
DeleteMaterial ==
    \E h \in Issued(materials, gone.materials) :
        /\ materials' = RegDecRc(materials, h)
        /\ gone' = [gone EXCEPT !.materials =
                        IF IsAlive(materials, h) /\ ~IsAlive(materials', h)
                        THEN @ \cup {h} ELSE @]
        /\ sret' = [op |-> "delete_material", handle |-> h]
        /\ UNCHANGED <<pipelines, held>>
        /\ UNCHANGED <<frameVars, locVars, texVars>>

(***************************************************************************)
(* TextureSetup (texture.rs 9-26).                                         *)
(***************************************************************************)
\* enum TextureHint (texture.rs 83-94).
TextureHints == {"Immutable", "Stream", "Dynamic"}

\* TextureSetup: its location and the hint of its params; the other
\* fields play no part in validate.
TextureSetups == [location : Locations, hint : TextureHints]

ValidOk == [kind |-> "ok"]
ValidErr(e) == [kind |-> "err", error |-> e]

TextureValidateAnyLocation(s) ==
    IF s.hint # "Immutable"
    THEN ValidErr("CreateMutableSharedObject")
    ELSE ValidOk

\* TextureSetup::validate (texture.rs 16-26).
TextureValidate(s) ==
    IF IsShared(s.location)
    THEN IF s.hint # "Immutable"
         THEN ValidErr("CreateMutableSharedObject")
         ELSE ValidOk
    ELSE ValidOk

NoSetup == "none"

InitTextureIdle ==
    /\ setup = NoSetup
    /\ valid = [op |-> "none"]

\* The setup is validated.
Validate ==
    /\ valid.op = "none"
    /\ valid' = [op |-> "validate", out |-> TextureValidate(setup)]
    /\ UNCHANGED setup
    /\ UNCHANGED <<frameVars, locVars, sceneVars>>

(***************************************************************************)
(* Location scenario: two locations are built, then compared or hashed.    *)
(***************************************************************************)
NoLoc == "none"

InitLocIdle ==
    /\ la = NoLoc
    /\ lb = NoLoc
    /\ lres = [op |-> "none"]

InitLoc ==
    /\ InitFrame
    /\ InitScene
    /\ InitTextureIdle
    /\ la \in Locations
    /\ lb \in Locations
    /\ lres = [op |-> "none"]

\* a == a, a == b and b == a are evaluated.
Compare ==
    /\ lres.op = "none"
    /\ lres' = [op |-> "eq",
                aa |-> LocationEq(la, la),
                ab |-> LocationEq(la, lb),
                ba |-> LocationEq(lb, la),
                out |-> EqOutcome(la, lb)]
    /\ UNCHANGED <<la, lb>>
    /\ UNCHANGED <<frameVars, sceneVars, texVars>>

\* Both locations are fed to a hasher.
HashBoth ==
    /\ lres.op = "none"
    /\ lres' = [op |-> "hash",
                a |-> LocationHashFeed(la),
                b |-> LocationHashFeed(lb)]
    /\ UNCHANGED <<la, lb>>
    /\ UNCHANGED <<frameVars, sceneVars, texVars>>

\* a == a, a == b and b == a are evaluated on the atoms of the locations.
CompareAtoms ==
    /\ lres.op = "none"
    /\ lres' = [op |-> "eqAtom",
                aa |-> AtomEq(ToAtom(la), ToAtom(la)),
                ab |-> AtomEq(ToAtom(la), ToAtom(lb)),
                ba |-> AtomEq(ToAtom(lb), ToAtom(la)),
                out |-> AtomEqOutcome(ToAtom(la), ToAtom(lb))]
    /\ UNCHANGED <<la, lb>>
    /\ UNCHANGED <<frameVars, sceneVars, texVars>>

\* The atoms of both locations are fed to a hasher.
HashAtoms ==
    /\ lres.op = "none"
    /\ lres' = [op |-> "hashAtom",
                a |-> AtomHashFeed(ToAtom(la)),
                b |-> AtomHashFeed(ToAtom(lb))]
    /\ UNCHANGED <<la, lb>>
    /\ UNCHANGED <<frameVars, sceneVars, texVars>>

\* Location::default() and LocationAtom::default() are fed to a hasher.
HashDefaults ==
    /\ lres.op = "none"
    /\ lres' = [op |-> "hashDefault",
                a |-> LocationHashFeed(LocationDefault),
                b |-> AtomHashFeed(AtomDefault)]
    /\ UNCHANGED <<la, lb>>
    /\ UNCHANGED <<frameVars, sceneVars, texVars>>

\* The atoms of both locations go through test::shared_container.
UseAsSetKeys ==
    /\ lres.op = "none"
    /\ lres' = [op |-> "set", r |-> SharedContainer(ToAtom(la), ToAtom(lb))]
    /\ UNCHANGED <<la, lb>>
    /\ UNCHANGED <<frameVars, sceneVars, texVars>>

Init == InitFrame /\ InitLocIdle /\ InitScene /\ InitTextureIdle

\* States of Scene.pipelines after a few create_pipeline and
\* delete_pipeline calls, with the handles removed so far: no pipeline, one
\* live, two live, one live and one deleted, one deleted.
PipelinesThen ==
    LET one == RegCreate(RegistryNew, LocationShared(<<"a">>), "v1")
        two == RegCreate(one.reg, LocationUnique(<<"a">>), "v2")
    IN  {[reg |-> RegistryNew, removed |-> {}],
         [reg |-> one.reg, removed |-> {}],
         [reg |-> two.reg, removed |-> {}],
         [reg |-> RegDecRc(two.reg, two.handle), removed |-> {two.handle}],
         [reg |-> RegDecRc(one.reg, one.handle), removed |-> {one.handle}]}

\* A Scene in which pipelines have been created and deleted already and no
\* material yet.
InitMaterials ==
    /\ InitFrame
    /\ InitLocIdle
    /\ InitTextureIdle
    /\ materials = RegistryNew
    /\ sret = [op |-> "none"]
    /\ \E p \in PipelinesThen :
          /\ pipelines = p.reg
          /\ gone = [pipelines |-> p.removed, materials |-> {}]
          /\ held = [h \in Handles |->
                        IF IsAlive(p.reg, h) THEN Rc(p.reg, h) ELSE 0]

\* A texture setup has been built, with any location and any hint.
InitTexture ==
    /\ InitFrame
    /\ InitLocIdle
    /\ InitScene
    /\ setup \in TextureSetups
    /\ valid = [op |-> "none"]

Next == EncodePlain \/ EncodeWithData \/ Dispatch \/ Clear

Spec == Init /\ [][Next]_vars

NextLoc ==
    Compare \/ HashBoth \/ CompareAtoms \/ HashAtoms \/ HashDefaults
        \/ UseAsSetKeys

SpecLoc == InitLoc /\ [][NextLoc]_vars

NextPipelines == LookupPipeline \/ CreatePipeline \/ DeletePipeline

SpecPipelines == Init /\ [][NextPipelines]_vars

NextMaterials == CreateMaterial \/ UpdateMaterial \/ DeleteMaterial

SpecMaterials == InitMaterials /\ [][NextMaterials]_vars

NextTexture == Validate

SpecTexture == InitTexture /\ [][NextTexture]_vars

(***************************************************************************)
(* Properties of Frame::dispatch and Frame::clear, checked under Spec.     *)
(***************************************************************************)
\* The verb of the visitor contract that belongs to each command variant.
CorrespondingVerb ==
    [op \in CommandOps |->
        CASE op = "Bind" -> "bind"
          [] op = "Draw" -> "draw"
          [] op = "UpdateScissor" -> "update_surface_scissor"
          [] op = "UpdateViewport" -> "update_surface_viewport"
          [] op = "CreateSurface" -> "create_surface"
          [] op = "DeleteSurface" -> "delete_surface"
          [] op = "CreateShader" -> "create_shader"
          [] op = "DeleteShader" -> "delete_shader"
          [] op = "CreateTexture" -> "create_texture"
          [] op = "UpdateTexture" -> "update_texture"
          [] op = "DeleteTexture" -> "delete_texture"
          [] op = "CreateRenderTexture" -> "create_render_texture"
          [] op = "DeleteRenderTexture" -> "delete_render_texture"
          [] op = "CreateMesh" -> "create_mesh"
          [] op = "UpdateVertexBuffer" -> "update_vertex_buffer"
          [] op = "UpdateIndexBuffer" -> "update_index_buffer"
          [] op = "DeleteMesh" -> "delete_mesh"]

IsLifecycle(call) == call.verb \in {"advance", "flush"}

IsCommandVerb(call) == ~IsLifecycle(call)

\* The calls of command verbs among a log, in the order they were made.
VerbCalls(log) == SelectSeq(log, IsCommandVerb)

Verbs(log) == [i \in 1 .. Len(log) |-> log[i].verb]

CountVerb(log, verb) == Cardinality({i \in 1 .. Len(log) : log[i].verb = verb})

RECURSIVE SumDrawn(_)
SumDrawn(log) ==
    IF log = <<>> THEN 0
    ELSE (IF Head(log).verb = "draw" THEN Head(log).out ELSE 0) + SumDrawn(Tail(log))

\* C1: after a successful dispatch the visitor has received, for the i-th
\* command of the list that was dispatched, exactly one call, the i-th call
\* of a command verb; it is the verb that corresponds to the command's
\* variant and it carries the command's own arena data: nothing is
\* reordered, merged or skipped.
C1_DispatchInSubmissionOrder ==
    ret.kind = "ok" =>
        LET m == VerbCalls(calls)
        IN  /\ Len(m) = Len(pre.cmds)
            /\ \A i \in 1 .. Len(m) :
                  /\ m[i].verb = CorrespondingVerb[pre.cmds[i].op]
                  /\ m[i].data = AsSlice(pre.bufs, pre.cmds[i].ptr)
                  /\ m[i].res = "ok"

C1_Witness ==
    /\ ret.kind = "ok"
    /\ Len(pre.cmds) = 2
    /\ pre.cmds[1].op = "CreateTexture"
    /\ pre.cmds[2].op = "UpdateTexture"
    /\ Verbs(calls) = <<"advance", "create_texture", "update_texture", "flush">>

\* C2: in a successful dispatch advance is called exactly once and first,
\* flush exactly once and last, with one call per command in between; for
\* an empty command list the visitor sees exactly advance, flush.
C2_AdvanceFirstFlushLast ==
    ret.kind = "ok" =>
        /\ Len(calls) = Len(pre.cmds) + 2
        /\ calls[1].verb = "advance"
        /\ calls[Len(calls)].verb = "flush"
        /\ CountVerb(calls, "advance") = 1
        /\ CountVerb(calls, "flush") = 1
        /\ (pre.cmds = <<>> => Verbs(calls) = <<"advance", "flush">>)

C2_Witness ==
    /\ ret.kind = "ok"
    /\ Len(pre.cmds) = 2
    /\ calls[1].verb = "advance"
    /\ calls[4].verb = "flush"

\* C3: when the verb of the k-th command answers with an error, dispatch
\* returns that error and that call is the visitor's last: the verbs of the
\* later commands and flush are not called, while advance and the verbs of
\* commands 1..k-1 were called and answered Ok before it.
C3_ErrorAbortsDispatch ==
    \A k \in 1 .. Len(pre.cmds) :
        (Len(calls) > k /\ calls[k + 1].res = "err") =>
            /\ ret = Err(k)
            /\ Len(calls) = k + 1
            /\ calls[1].verb = "advance"
            /\ calls[1].res = "ok"
            /\ CountVerb(calls, "flush") = 0
            /\ \A i \in 1 .. k - 1 :
                  /\ calls[i + 1].verb = CorrespondingVerb[pre.cmds[i].op]
                  /\ calls[i + 1].res = "ok"
            /\ calls[k + 1].verb = CorrespondingVerb[pre.cmds[k].op]

C3_Witness ==
    /\ Len(pre.cmds) = 2
    /\ Len(calls) = 2
    /\ calls[2].res = "err"
    /\ ret = Err(1)

\* C4: a successful dispatch returns the number of Draw commands of the
\* dispatched list and the sum of the triangle counts draw returned for
\* them; no other variant adds to either count.
C4_DrawAndTriangleCounts ==
    ret.kind = "ok" =>
        /\ ret.dc = Cardinality({i \in 1 .. Len(pre.cmds) : pre.cmds[i].op = "Draw"})
        /\ ret.tris = SumDrawn(calls)
        /\ ((\A i \in 1 .. Len(pre.cmds) : pre.cmds[i].op # "Draw")
               => (ret.dc = 0 /\ ret.tris = 0))

C4_Witness ==
    /\ ret.kind = "ok"
    /\ Len(pre.cmds) = 2
    /\ pre.cmds[1].op = "Bind"
    /\ pre.cmds[2].op = "Draw"
    /\ ret.dc = 1
    /\ ret.tris = 2

\* C5: after a successful dispatch the command list is empty and the
\* scratch arena is exactly what it was before the call.
C5_DispatchKeepsArena ==
    ret.kind = "ok" => (cmds = <<>> /\ bufs = pre.bufs)

C5_Witness ==
    /\ ret.kind = "ok"
    /\ pre.cmds # <<>>
    /\ pre.bufs # <<>>
    /\ bufs = pre.bufs
    /\ cmds = <<>>

\* C6: after clear the command list is empty and the arena has length zero,
\* and clearing once more leaves that same state: clear is idempotent.
C6_ClearIdempotent ==
    clearRun >= 1 =>
        /\ cmds = <<>>
        /\ bufs = <<>>
        /\ FrameClear(Frame) = Frame

C6_Witness ==
    /\ clearRun = 2
    /\ clearedFrom.cmds > 0
    /\ clearedFrom.bufs > 0
    /\ Frame = NoFrame

\* C7, as stated: whenever dispatch returns an error the command list is
\* empty.
C7_ErrorEmptiesList ==
    ret.kind = "err" => cmds = <<>>

\* C7, amended: when dispatch returns an error raised by a command verb or
\* by flush the command list is empty, so a dispatch that follows without
\* new encoding calls no command verb; when the error was raised by advance
\* the command list is left as it was.
C7_ErrorEmptiesListUnlessAdvanceFailed ==
    /\ ret.kind = "err" =>
          IF ret.at = 0 THEN cmds = pre.cmds ELSE cmds = <<>>
    /\ (ret.kind # "none" /\ prev.kind = "err" /\ prev.at >= 1) =>
          VerbCalls(calls) = <<>>

C7_Witness ==
    /\ ret.kind = "err"
    /\ ret.at = 1
    /\ Len(pre.cmds) = 2
    /\ cmds = <<>>

\* C8: no command is handed to the visitor twice: every call of a command
\* verb is the first delivery of its command, and no command that was
\* delivered is still in the list.
C8_DeliveredAtMostOnce ==
    /\ \A i \in 1 .. Len(calls) : IsCommandVerb(calls[i]) => calls[i].sent = 1
    /\ \A i \in 1 .. Len(cmds) : cmds[i].sent = 0

C8_Witness ==
    /\ ret.kind = "ok"
    /\ prev.kind = "err"
    /\ prev.at = 0
    /\ Len(pre.cmds) = 2
    /\ Len(VerbCalls(calls)) = 2

\* C26: the arena writes made since the last clear do not alias.  Their
\* (offset, length) ranges are pairwise disjoint, as_slice of each pointer
\* gives exactly the data of its own write whatever was written after it,
\* and a dispatch hands each pointer-carrying command the data that was
\* written for it.
C26_ArenaWritesDoNotAlias ==
    /\ \A i, j \in 1 .. Len(written) :
          i < j => written[i].ptr.off + written[i].ptr.len
                      <= written[j].ptr.off
    /\ \A i \in 1 .. Len(written) :
          AsSlice(bufs, written[i].ptr) = written[i].data
    /\ ret.kind = "ok" =>
          \A i \in 1 .. Len(pre.cmds) :
              pre.cmds[i].op \in PtrOps =>
                  \E k \in 1 .. Len(written) :
                      /\ written[k].ptr = pre.cmds[i].ptr
                      /\ VerbCalls(calls)[i].data = written[k].data

C26_Witness ==
    /\ ret.kind = "ok"
    /\ Len(pre.cmds) = 2
    /\ pre.cmds[1].op = "Draw"
    /\ pre.cmds[2].op = "UpdateTexture"
    /\ Len(written) = 2
    /\ written[1].ptr # written[2].ptr
    /\ VerbCalls(calls)[2].data = written[2].data

(***************************************************************************)
(* Properties of Location, checked under SpecLoc.                          *)
(***************************************************************************)
\* C9: a location built with Location::unique compares unequal to itself
\* and to every other location, also to a unique one built from the same
\* path.
C9_UniqueNeverEqual ==
    (lres.op = "eq" /\ la.code.tag = "Unique") => (~lres.aa /\ ~lres.ab)

C9_Witness ==
    /\ lres.op = "eq"
    /\ la.code.tag = "Unique"
    /\ lb.code.tag = "Unique"
    /\ la.location = lb.location
    /\ ~lres.aa
    /\ ~lres.ab

\* C10: two locations built with Location::shared are equal exactly when
\* their paths are equal (as Paths: component for component), and equal
\* ones feed the same data to the hasher.
C10_SharedEqualIffSamePath ==
    /\ (lres.op = "eq" /\ la.code.tag = "Shared" /\ lb.code.tag = "Shared") =>
          (lres.ab <=> PathEq(la.location, lb.location))
    /\ (lres.op = "hash" /\ la.code.tag = "Shared" /\ lb.code.tag = "Shared"
          /\ PathEq(la.location, lb.location)) =>
          (lres.a = lres.b /\ lres.a # Panic)

C10_Witness ==
    /\ lres.op = "eq"
    /\ la.code.tag = "Shared"
    /\ lb.code.tag = "Shared"
    /\ la.location = <<"a">>
    /\ lb.location = <<"a">>
    /\ lres.ab

\* C11: two locations built with Location::token are equal exactly when
\* their tokens are equal and their paths are equal; with the same path
\* and different tokens they are unequal.
C11_TokenEqualIffSameTokenAndPath ==
    (lres.op = "eq" /\ la.code.tag = "TokenShared"
        /\ lb.code.tag = "TokenShared") =>
        (lres.ab <=> (la.code.token = lb.code.token
                        /\ PathEq(la.location, lb.location)))

C11_Witness ==
    /\ lres.op = "eq"
    /\ la = LocationToken(0, <<"a">>)
    /\ lb = LocationToken(1, <<"a">>)
    /\ ~lres.ab

\* C12: a == b implies that both are shared, carry the same signature
\* (Shared and Shared, or TokenShared with the same token) and the same
\* path; Shared(p) never equals TokenShared(t, p); and a == b gives the
\* same answer as b == a, also when one side is Unique.
C12_EqualImpliesSameSharedSignature ==
    lres.op = "eq" =>
        /\ lres.ab =>
              /\ IsShared(la) /\ IsShared(lb)
              /\ la.code = lb.code
              /\ PathEq(la.location, lb.location)
        /\ (la.code.tag = "Shared" /\ lb.code.tag = "TokenShared") =>
              (~lres.ab /\ ~lres.ba)
        /\ lres.ab <=> lres.ba

C12_Witness ==
    /\ lres.op = "eq"
    /\ la = LocationShared(<<"a">>)
    /\ lb = LocationToken(0, <<"a">>)
    /\ ~lres.ab
    /\ ~lres.ba

\* C13: hashing a Unique Location or a Unique LocationAtom, the Default of
\* either included, panics and yields no hash; hashing a Shared or
\* TokenShared one completes.
C13_HashPanicsExactlyOnUnique ==
    /\ lres.op \in {"hash", "hashAtom"} =>
          /\ (lres.a = Panic) <=> (la.code.tag = "Unique")
          /\ (lres.b = Panic) <=> (lb.code.tag = "Unique")
    /\ lres.op = "hashDefault" => (lres.a = Panic /\ lres.b = Panic)

C13_Witness ==
    /\ lres.op = "hashAtom"
    /\ la = LocationDefault
    /\ lb.code.tag = "TokenShared"
    /\ lres.a = Panic
    /\ lres.b # Panic

\* C14 as stated: comparing a Unique location (or its atom) for equality
\* aborts instead of returning a result.
C14_UniqueCompareAborts ==
    (lres.op \in {"eq", "eqAtom"} /\ la.code.tag = "Unique") =>
        lres.out.aborted

\* C14, amended: comparing never aborts; with a Unique location (or its
\* atom) on either side the comparison returns false.  Only hashing a
\* Unique location aborts.
C14_UniqueCompareReturnsFalse ==
    (lres.op \in {"eq", "eqAtom"}
        /\ (la.code.tag = "Unique" \/ lb.code.tag = "Unique")) =>
        (~lres.out.aborted /\ ~lres.out.value)

C14_Witness ==
    /\ lres.op = "eq"
    /\ la = LocationUnique(<<"a">>)
    /\ lb = LocationUnique(<<"a">>)
    /\ ~lres.out.aborted
    /\ ~lres.out.value

\* C15: LocationAtom keeps the contract of Location.  For shared locations
\* a and b: the atoms are equal exactly when a and b are, equal ones feed
\* the same data to the hasher, atoms with the same token and different
\* paths are unequal, and a hash set of atoms accepts the first insert of
\* an atom, rejects the insert of an equal one and contains exactly the
\* atoms inserted.
C15_AtomKeepsContract ==
    LET same == la.code = lb.code /\ PathEq(la.location, lb.location)
        t(x) == IF x THEN "true" ELSE "false"
    IN  (IsShared(la) /\ IsShared(lb)) =>
            /\ lres.op = "eqAtom" => (lres.ab <=> same)
            /\ (lres.op = "hashAtom" /\ same) =>
                  (lres.a = lres.b /\ lres.a # Panic)
            /\ lres.op = "set" =>
                  lres.r = <<"true", "true", t(same), t(~same), "true",
                             "true", "false">>

C15_Witness ==
    /\ lres.op = "set"
    /\ la = LocationToken(0, <<"a">>)
    /\ lb = LocationToken(0, <<"b">>)
    /\ lres.r = <<"true", "true", "false", "true", "true", "true", "false">>

(***************************************************************************)
(* Properties of the registries of Scene: the pipelines under              *)
(* SpecPipelines, the materials under SpecMaterials.                       *)
(***************************************************************************)
\* C16: creating a pipeline for a shared location that is registered
\* already returns the handle of the existing record, leaves its stored
\* value as it was (the new value is discarded) and raises its reference
\* count by one; the first create for the location stores its value with
\* reference count 1 and registers the location.  So two creates in a row
\* return the same handle, the value is the first one and the count is 2.
C16_SharedCreateReturnsSameHandle ==
    [][(sret'.op = "create_pipeline" /\ IsShared(sret'.loc)) =>
          LET hit == RegLookup(pipelines, sret'.loc)
          IN  IF hit.some
              THEN /\ sret'.out = SceneOk(hit.value)
                   /\ RegGet(pipelines', hit.value)
                        = RegGet(pipelines, hit.value)
                   /\ Rc(pipelines', hit.value) = Rc(pipelines, hit.value) + 1
                   /\ RegLookup(pipelines', sret'.loc) = hit
              ELSE sret'.out.kind = "ok" =>
                   /\ RegGet(pipelines', sret'.out.handle) = Some(sret'.value)
                   /\ Rc(pipelines', sret'.out.handle) = 1
                   /\ RegLookup(pipelines', sret'.loc)
                        = Some(sret'.out.handle)]_vars

C16_Witness ==
    /\ sret.op = "create_pipeline"
    /\ sret.loc = LocationShared(<<"a">>)
    /\ sret.value = "v2"
    /\ sret.out.kind = "ok"
    /\ RegGet(pipelines, sret.out.handle) = Some("v1")
    /\ Rc(pipelines, sret.out.handle) = 2

\* C17: in every reachable state of the pipeline registry, every handle
\* that get resolves has a reference count of at least 1, and every entry
\* of the lookup map points to a handle that get resolves.
C17_LiveHasRcAndLookupsAreLive ==
    /\ \A h \in Handles :
          RegGet(pipelines, h).some => Rc(pipelines, h) >= 1
    /\ \A e \in pipelines.lookups : RegGet(pipelines, e.handle).some

C17_Witness ==
    /\ sret.op = "delete_pipeline"
    /\ RegGet(pipelines, sret.handle).some
    /\ Rc(pipelines, sret.handle) = 1
    /\ \E e \in pipelines.lookups : e.handle = sret.handle
    /\ gone.pipelines # {}

\* C18: a record created under a Unique location is never shared.  Every
\* successful create_material returns a handle that was not live before
\* and leaves the lookup map as it was, and a lookup of a Unique location
\* finds nothing in any state.
C18_UniqueNeverShares ==
    [][/\ RegLookup(materials', MaterialLocation) = None
       /\ \A loc \in SceneLocations :
             ~IsShared(loc) => RegLookup(pipelines', loc) = None
       /\ (sret'.op = "create_material" /\ sret'.out.kind = "ok") =>
             /\ ~IsAlive(materials, sret'.out.handle)
             /\ IsAlive(materials', sret'.out.handle)
             /\ materials'.lookups = materials.lookups]_vars

C18_Witness ==
    /\ sret.op = "create_material"
    /\ sret.out.kind = "ok"
    /\ Cardinality(LiveHandles(materials)) = 2
    /\ materials.lookups = {}
    /\ RegLookup(materials, MaterialLocation) = None

\* C19: delete_pipeline on a live record with reference count n > 1 keeps
\* the record (same value, same lookup map) with count n - 1; on a record
\* with count 1 it removes it: get of the handle and lookup of its
\* location give None afterwards.  A later create for a location that is
\* not registered stores the new value under a handle that was not live
\* and has never been removed.
C19_RemovedByLastDecRc ==
    [][/\ (sret'.op = "delete_pipeline" /\ IsAlive(pipelines, sret'.handle)) =>
             LET h == sret'.handle
                 n == Rc(pipelines, h)
             IN  IF n > 1
                 THEN /\ RegGet(pipelines', h) = RegGet(pipelines, h)
                      /\ Rc(pipelines', h) = n - 1
                      /\ pipelines'.lookups = pipelines.lookups
                 ELSE /\ RegGet(pipelines', h) = None
                      /\ \A loc \in SceneLocations :
                            RegLookup(pipelines, loc) = Some(h) =>
                                RegLookup(pipelines', loc) = None
       /\ (sret'.op = "create_pipeline" /\ sret'.out.kind = "ok"
             /\ ~RegLookup(pipelines, sret'.loc).some) =>
             /\ ~IsAlive(pipelines, sret'.out.handle)
             /\ sret'.out.handle \notin gone.pipelines
             /\ RegGet(pipelines', sret'.out.handle) = Some(sret'.value)]_vars

C19_Witness ==
    /\ sret.op = "delete_pipeline"
    /\ sret.handle = Handle(1, 2)
    /\ gone.pipelines = {Handle(1, 1), Handle(1, 2)}
    /\ RegGet(pipelines, sret.handle) = None
    /\ RegLookup(pipelines, LocationShared(<<"a">>)) = None

\* C20: no handle is issued twice.  A handle whose record has been removed
\* never resolves through get again, and no create returns it.
C20_NoHandleAliasing ==
    /\ \A h \in gone.pipelines : RegGet(pipelines, h) = None
    /\ (sret.op = "create_pipeline" /\ sret.out.kind = "ok") =>
          sret.out.handle \notin gone.pipelines

C20_Witness ==
    /\ sret.op = "create_pipeline"
    /\ sret.out = SceneOk(Handle(1, 2))
    /\ Handle(1, 1) \in gone.pipelines
    /\ RegGet(pipelines, Handle(1, 1)) = None
    /\ RegGet(pipelines, Handle(1, 2)) = Some(sret.value)

\* C21: deleting through a handle that is not live changes nothing: no
\* record, no reference count and no lookup entry of the registry, so a
\* second delete of the same pipeline or material cannot touch the record
\* that took over its slot.
C21_DeleteOfDeadHandleIsNoOp ==
    [][/\ (sret'.op = "delete_pipeline"
             /\ ~IsAlive(pipelines, sret'.handle)) =>
             (pipelines' = pipelines /\ gone' = gone)
       /\ (sret'.op = "delete_material"
             /\ ~IsAlive(materials, sret'.handle)) =>
             (materials' = materials /\ gone' = gone)]_vars

C21_Witness ==
    /\ sret.op = "delete_pipeline"
    /\ sret.handle = Handle(1, 1)
    /\ Handle(1, 1) \in gone.pipelines
    /\ IsAlive(pipelines, Handle(1, 2))
    /\ Rc(pipelines, Handle(1, 2)) = 2

\* C22: no resurrection.  In every step, a handle whose record is removed
\* by the step or was removed before stays removed, and get of it gives
\* None after the step.
C22_NoResurrection ==
    [][\A h \in Handles :
          /\ (IsAlive(pipelines, h) /\ ~IsAlive(pipelines', h)) =>
                h \in gone'.pipelines
          /\ h \in gone.pipelines =>
                (h \in gone'.pipelines /\ RegGet(pipelines', h) = None)]_vars

C22_Witness ==
    /\ sret.op = "lookup_pipeline"
    /\ sret.out = Some(Handle(1, 2))
    /\ Handle(1, 1) \in gone.pipelines
    /\ RegGet(pipelines, Handle(1, 1)) = None

\* C23: the reference count of a pipeline is the number of references its
\* callers hold: the create_pipeline calls that returned its handle minus
\* the delete_pipeline calls on it.  While that number is positive the
\* record is live with exactly that count; when it is zero the record is
\* not live.
C23_RcMatchesHeldReferences ==
    \A h \in Handles :
        IF held[h] > 0
        THEN RegGet(pipelines, h).some /\ Rc(pipelines, h) = held[h]
        ELSE RegGet(pipelines, h) = None

C23_Witness ==
    /\ sret.op = "delete_pipeline"
    /\ sret.handle = Handle(1, 2)
    /\ held[Handle(1, 2)] = 1
    /\ Rc(pipelines, Handle(1, 2)) = 1
    /\ RegLookup(pipelines, LocationShared(<<"a">>)) = Some(Handle(1, 2))
    /\ held[Handle(1, 1)] = 0
    /\ Handle(1, 1) \in gone.pipelines

\* C24: a handle that is not live is answered with a typed error and no
\* change of state.  create_material with such a pipeline handle returns
\* Err(PipelineHandleInvalid) and adds no material; update_material with
\* such a material handle returns Err(MaterialHandleInvalid) and modifies
\* no material.
C24_StaleHandleIsTypedError ==
    [][/\ (sret'.op = "create_material"
             /\ ~RegGet(pipelines, sret'.pipeline).some) =>
             /\ sret'.out = SceneErrHandle("PipelineHandleInvalid",
                                           sret'.pipeline)
             /\ materials' = materials
             /\ pipelines' = pipelines
       /\ (sret'.op = "update_material"
             /\ ~RegGet(materials, sret'.handle).some) =>
             /\ sret'.out = SceneErrHandle("MaterialHandleInvalid",
                                           sret'.handle)
             /\ materials' = materials
             /\ pipelines' = pipelines]_vars

C24_Witness ==
    /\ sret.op = "update_material"
    /\ sret.handle \in gone.materials
    /\ sret.out = SceneErrHandle("MaterialHandleInvalid", sret.handle)
    /\ gone.pipelines # {}
    /\ LiveHandles(materials) # {}

\* C27: create_material never changes the pipeline registry.  Whether it
\* succeeds or fails, every pipeline record, its reference count and the
\* references its callers hold are the same before and after the call.
C27_CreateMaterialKeepsPipelines ==
    [][sret'.op = "create_material" =>
          (pipelines' = pipelines /\ held' = held)]_vars

C27_Witness ==
    /\ sret.op = "create_material"
    /\ sret.out.kind = "ok"
    /\ Cardinality(LiveHandles(materials)) = 2
    /\ \A h \in LiveHandles(materials) :
          RegGet(materials, h).value.pipeline = sret.pipeline
    /\ Rc(pipelines, sret.pipeline) = 1

(***************************************************************************)
(* Properties of TextureSetup, checked under SpecTexture.                  *)
(***************************************************************************)
\* C25: validate returns Err(CreateMutableSharedObject) exactly when the
\* location of the setup is Shared or TokenShared and its hint is Stream
\* or Dynamic; for a Unique location with any hint and for a shared
\* location with hint Immutable it returns Ok.
C25_ValidateRejectsMutableShared ==
    valid.op = "validate" =>
        IF setup.location.code.tag \in {"Shared", "TokenShared"}
              /\ setup.hint \in {"Stream", "Dynamic"}
        THEN valid.out = ValidErr("CreateMutableSharedObject")
        ELSE valid.out = ValidOk

C25_Witness ==
    /\ valid.op = "validate"
    /\ setup.location = LocationToken(0, <<"a">>)
    /\ setup.hint = "Dynamic"
    /\ valid.out = ValidErr("CreateMutableSharedObject")

====
